---- MODULE Spec2Model ----
(***************************************************************************)
(* State-machine model of the stm32g0 low-level drivers: the RCC driver    *)
(* (ownership flag, bus clock gating, register field codecs), the ADC      *)
(* driver (ownership flag, codecs) and the GPIO pin type-state driver.     *)
(*                                                                         *)
(* A 32-bit register is modelled as the set of positions of its 1 bits     *)
(* (a subset of 0..31): `a | b` is union, `a & !b` is set difference and   *)
(* `1u32 << n` is {n}.                                                     *)
(***************************************************************************)
EXTENDS Integers, Sequences, FiniteSets, TLC

VARIABLES
    RCC_TAKEN,   \* rcc.rs  static TAKEN: AtomicBool
    ADC_TAKEN,   \* adc.rs  static TAKEN: AtomicBool
    rccHeld,     \* per execution context: number of live Rcc handles
    adcHeld,     \* per execution context: number of live Adc handles
    APBENR1,     \* RCC APB1 peripheral clock enable register
    APBENR2,     \* RCC APB2 peripheral clock enable register
    IOPENR,      \* RCC I/O port clock enable register
    hist,        \* the last two completed API calls, each with the state before it
    nCalls,      \* acquire calls made so far, per peripheral kind
    nClockOps,   \* clock gating calls made so far
    pc,          \* per context: position inside an acquire call run step by step
    loaded,      \* per context: the value read by TAKEN.load
    rd,          \* per context: the register value read by modify
    cv,          \* the last codec conversion performed
    MODER,       \* per port: GPIO mode register
    OTYPER,      \* per port: GPIO output type register
    PUPDR,       \* per port: GPIO pull-up/pull-down register
    AFRL,        \* per port: GPIO alternate function low register
    AFRH,        \* per port: GPIO alternate function high register
    ODR,         \* per port: GPIO output data register (driven through BSRR)
    pins,        \* the live pin handles
    pinOp,       \* the last pin operation, with the registers before it
    nPinOps,     \* pin operations made so far
    CFGR,        \* RCC clock configuration register
    CFGR1,       \* ADC configuration register 1
    CFGR2,       \* ADC configuration register 2
    SMPR,        \* ADC sampling time register
    fop,         \* the last register-field call, with the registers before it
    nFieldOps,   \* register-field calls made so far
    job          \* per context: the pin transition run step by step

guardVars == <<RCC_TAKEN, ADC_TAKEN, rccHeld, adcHeld, nCalls>>
clockVars == <<APBENR1, APBENR2, IOPENR, nClockOps>>
stepVars  == <<pc, loaded, rd>>
gpioVars  == <<MODER, OTYPER, PUPDR, AFRL, AFRH, ODR, pins, pinOp, nPinOps>>
fieldVars == <<CFGR, CFGR1, CFGR2, SMPR, fop, nFieldOps>>
rmwVars   == <<job>>
vars == <<RCC_TAKEN, ADC_TAKEN, rccHeld, adcHeld, APBENR1, APBENR2, IOPENR,
          hist, nCalls, nClockOps, pc, loaded, rd, cv,
          MODER, OTYPER, PUPDR, AFRL, AFRH, ODR, pins, pinOp, nPinOps,
          CFGR, CFGR1, CFGR2, SMPR, fop, nFieldOps, job>>

----------------------------------------------------------------------------
(* Bounds of the model *)

\* acquire calls per peripheral kind
MaxCalls == 3
\* clock gating calls per run
MaxClockOps == 2
\* largest usize handed to Channel::from_usize
MaxUsize == 40
\* pin operations per run
MaxPinOps == 2
\* calls of Pins::take per port
MaxPinsTake == 2
\* register-field calls (RCC CFGR, ADC CFGR1 / CFGR2 / SMPR) per run
MaxFieldOps == 2

----------------------------------------------------------------------------
(* 32-bit words as sets of bit positions *)

BitPos == 0..31

\* 1u32 << n (the shift amount of a u32 shift is below 32 for every offset table)
Shl1(n) == {n % 32}

BitOr(a, b) == a \cup b

BitAndNot(a, b) == a \ b

\* the bits of the w-bit field at offset o holding value v
RECURSIVE FieldBits(_, _, _)
FieldBits(v, o, w) ==
    IF w = 0 THEN {}
    ELSE (IF v % 2 = 1 THEN {o} ELSE {}) \cup FieldBits(v \div 2, o + 1, w - 1)

\* the value held by the w-bit field at offset o of register r
RECURSIVE FieldValue(_, _, _)
FieldValue(r, o, w) ==
    IF w = 0 THEN 0
    ELSE (IF o \in r THEN 1 ELSE 0) + 2 * FieldValue(r, o + 1, w - 1)

\* register contents the runs start from (0 is the reset value)
RegSamples == { {}, BitPos, {b \in BitPos : b % 2 = 0} }

Complement(r) == BitPos \ r

Ctx == {"main", "irq"}

----------------------------------------------------------------------------
(* rcc.rs: the clock gating tables *)

APB1Peripheral ==
    {"TIM2", "TIM3", "TIM4", "TIM6", "TIM7", "LPUART2", "USART5", "USART6",
     "RTCAPB", "WWDG", "FDCAN", "USB", "SPI2", "SPI3", "CRS", "USART2",
     "USART3", "USART4", "LPUART1", "I2C1", "I2C2", "I2C3", "CEC", "UCPD1",
     "UCPD2", "DBG", "PWR", "DAC1", "LPTIM2", "LPTIM1"}

APB2Peripheral ==
    {"SYSCFG", "TIM1", "SPI1", "USART1", "TIM14", "TIM15", "TIM16", "TIM17", "ADC"}

GPIOPort == {"GPIOA", "GPIOB", "GPIOC", "GPIOD", "GPIOE", "GPIOF"}

\* impl From<APB1Peripheral> for u8
APB1Offset(p) ==
    CASE p = "TIM2" -> 0     [] p = "TIM3" -> 1     [] p = "TIM4" -> 2
      [] p = "TIM6" -> 4     [] p = "TIM7" -> 5     [] p = "LPUART2" -> 7
      [] p = "USART5" -> 8   [] p = "USART6" -> 9   [] p = "RTCAPB" -> 10
      [] p = "WWDG" -> 11    [] p = "FDCAN" -> 12   [] p = "USB" -> 13
      [] p = "SPI2" -> 14    [] p = "SPI3" -> 15    [] p = "CRS" -> 16
      [] p = "USART2" -> 17  [] p = "USART3" -> 18  [] p = "USART4" -> 19
      [] p = "LPUART1" -> 20 [] p = "I2C1" -> 21    [] p = "I2C2" -> 22
      [] p = "I2C3" -> 23    [] p = "CEC" -> 24     [] p = "UCPD1" -> 25
      [] p = "UCPD2" -> 26   [] p = "DBG" -> 27     [] p = "PWR" -> 28
      [] p = "DAC1" -> 29    [] p = "LPTIM2" -> 30  [] p = "LPTIM1" -> 31

\* impl From<APB2Peripheral> for u8
APB2Offset(p) ==
    CASE p = "SYSCFG" -> 0  [] p = "TIM1" -> 11   [] p = "SPI1" -> 12
      [] p = "USART1" -> 14 [] p = "TIM14" -> 15  [] p = "TIM15" -> 16
      [] p = "TIM16" -> 17  [] p = "TIM17" -> 18  [] p = "ADC" -> 20

\* impl From<GPIOPort> for u8
GPIOOffset(g) ==
    CASE g = "GPIOA" -> 0 [] g = "GPIOB" -> 1 [] g = "GPIOC" -> 2
      [] g = "GPIOD" -> 3 [] g = "GPIOE" -> 4 [] g = "GPIOF" -> 5

\* enum Peripheral { APB1(APB1Peripheral), APB2(APB2Peripheral) }
Peripheral ==
    {[bus |-> "APB1", name |-> n] : n \in APB1Peripheral}
        \cup {[bus |-> "APB2", name |-> n] : n \in APB2Peripheral}

GPIOPortArg == {[bus |-> "IOP", name |-> g] : g \in GPIOPort}

PeripheralADC == [bus |-> "APB2", name |-> "ADC"]

\* the bit offset of a clock gate in its bus register
Offset(p) ==
    CASE p.bus = "APB1" -> APB1Offset(p.name)
      [] p.bus = "APB2" -> APB2Offset(p.name)
      [] p.bus = "IOP"  -> GPIOOffset(p.name)

\* an enable whose mask spans two bits
SetBit_wide(r, off) == BitOr(r, Shl1(off) \cup Shl1(off + 1))

\* r.bits() | (1u32 << off)
SetBit(r, off) == BitOr(r, Shl1(off))

\* a disable that writes the register back unchanged
ClearBit_noop(r, off) == r

\* r.bits() & !(1u32 << off)
ClearBit(r, off) == BitAndNot(r, Shl1(off))

----------------------------------------------------------------------------
(* The record of completed API calls *)

NoArg == [bus |-> "-", name |-> "-"]

\* the state a call starts from
Snapshot ==
    [APBENR1 |-> APBENR1, APBENR2 |-> APBENR2, IOPENR |-> IOPENR,
     RCC_TAKEN |-> RCC_TAKEN, ADC_TAKEN |-> ADC_TAKEN, nCalls |-> nCalls]

Call(name, arg, ret) == [name |-> name, arg |-> arg, ret |-> ret, pre |-> Snapshot]

\* keep the last two calls
Push(h, e) == IF Len(h) < 2 THEN Append(h, e) ELSE <<h[2], e>>

NoCall == [name |-> "-", arg |-> NoArg, ret |-> "-", pre |-> Snapshot]

LastCall == IF hist = <<>> THEN NoCall ELSE hist[Len(hist)]

PrevCall == IF Len(hist) < 2 THEN NoCall ELSE hist[1]

----------------------------------------------------------------------------
(* rcc.rs, adc.rs: the calls run to completion (one flow of control) *)

\* a take that never stores the flag
Rcc_take_nostore(c) ==
    /\ nCalls.rcc < MaxCalls
    /\ IF RCC_TAKEN
         THEN /\ hist' = Push(hist, Call("Rcc_take", NoArg, "None"))
              /\ UNCHANGED <<RCC_TAKEN, rccHeld>>
         ELSE /\ rccHeld' = [rccHeld EXCEPT ![c] = @ + 1]
              /\ hist' = Push(hist, Call("Rcc_take", NoArg, "Some"))
              /\ UNCHANGED RCC_TAKEN
    /\ nCalls' = [nCalls EXCEPT !.rcc = @ + 1]
    /\ UNCHANGED <<ADC_TAKEN, adcHeld, clockVars, stepVars, cv, gpioVars, fieldVars, rmwVars>>

\* Rcc::take
Rcc_take(c) ==
    /\ nCalls.rcc < MaxCalls
    /\ IF RCC_TAKEN
         THEN /\ hist' = Push(hist, Call("Rcc_take", NoArg, "None"))
              /\ UNCHANGED <<RCC_TAKEN, rccHeld>>
         ELSE /\ RCC_TAKEN' = TRUE
              /\ rccHeld' = [rccHeld EXCEPT ![c] = @ + 1]
              /\ hist' = Push(hist, Call("Rcc_take", NoArg, "Some"))
    /\ nCalls' = [nCalls EXCEPT !.rcc = @ + 1]
    /\ UNCHANGED <<ADC_TAKEN, adcHeld, clockVars, stepVars, cv, gpioVars, fieldVars, rmwVars>>

\* Adc::new(rcc: &mut Rcc)
Adc_new(c) ==
    /\ rccHeld[c] > 0
    /\ nCalls.adc < MaxCalls
    /\ APBENR2' = SetBit(APBENR2, APB2Offset("ADC"))
    /\ IF ADC_TAKEN
         THEN /\ hist' = Push(hist, Call("Adc_new", NoArg, "None"))
              /\ UNCHANGED <<ADC_TAKEN, adcHeld>>
         ELSE /\ ADC_TAKEN' = TRUE
              /\ adcHeld' = [adcHeld EXCEPT ![c] = @ + 1]
              /\ hist' = Push(hist, Call("Adc_new", NoArg, "Some"))
    /\ nCalls' = [nCalls EXCEPT !.adc = @ + 1]
    /\ UNCHANGED <<RCC_TAKEN, rccHeld, APBENR1, IOPENR, nClockOps, stepVars, cv, gpioVars, fieldVars, rmwVars>>

\* an Rcc handle goes out of scope (Rcc has no Drop implementation)
drop_Rcc(c) ==
    /\ rccHeld[c] > 0
    /\ rccHeld' = [rccHeld EXCEPT ![c] = @ - 1]
    /\ hist' = Push(hist, Call("drop_Rcc", NoArg, "-"))
    /\ UNCHANGED <<RCC_TAKEN, ADC_TAKEN, adcHeld, nCalls, clockVars, stepVars, cv, gpioVars, fieldVars, rmwVars>>

\* an Adc handle goes out of scope (Adc has no Drop implementation)
drop_Adc(c) ==
    /\ adcHeld[c] > 0
    /\ adcHeld' = [adcHeld EXCEPT ![c] = @ - 1]
    /\ hist' = Push(hist, Call("drop_Adc", NoArg, "-"))
    /\ UNCHANGED <<RCC_TAKEN, ADC_TAKEN, rccHeld, nCalls, clockVars, stepVars, cv, gpioVars, fieldVars, rmwVars>>

\* Rcc::enable_peripheral_clock(&mut self, p)
enable_peripheral_clock(c, p) ==
    /\ rccHeld[c] > 0
    /\ nClockOps < MaxClockOps
    /\ CASE p.bus = "APB1" -> /\ APBENR1' = SetBit(APBENR1, APB1Offset(p.name))
                              /\ UNCHANGED APBENR2
         [] p.bus = "APB2" -> /\ APBENR2' = SetBit(APBENR2, APB2Offset(p.name))
                              /\ UNCHANGED APBENR1
    /\ nClockOps' = nClockOps + 1
    /\ hist' = Push(hist, Call("enable_peripheral_clock", p, "-"))
    /\ UNCHANGED <<guardVars, IOPENR, stepVars, cv, gpioVars, fieldVars, rmwVars>>

\* Rcc::disable_peripheral_clock(&mut self, p)
disable_peripheral_clock(c, p) ==
    /\ rccHeld[c] > 0
    /\ nClockOps < MaxClockOps
    /\ CASE p.bus = "APB1" -> /\ APBENR1' = ClearBit(APBENR1, APB1Offset(p.name))
                              /\ UNCHANGED APBENR2
         [] p.bus = "APB2" -> /\ APBENR2' = ClearBit(APBENR2, APB2Offset(p.name))
                              /\ UNCHANGED APBENR1
    /\ nClockOps' = nClockOps + 1
    /\ hist' = Push(hist, Call("disable_peripheral_clock", p, "-"))
    /\ UNCHANGED <<guardVars, IOPENR, stepVars, cv, gpioVars, fieldVars, rmwVars>>

\* Rcc::enable_gpio_port_clock(&mut self, g)
enable_gpio_port_clock(c, g) ==
    /\ rccHeld[c] > 0
    /\ nClockOps < MaxClockOps
    /\ IOPENR' = SetBit(IOPENR, GPIOOffset(g.name))
    /\ nClockOps' = nClockOps + 1
    /\ hist' = Push(hist, Call("enable_gpio_port_clock", g, "-"))
    /\ UNCHANGED <<guardVars, APBENR1, APBENR2, stepVars, cv, gpioVars, fieldVars, rmwVars>>

\* Rcc::disable_gpio_port_clock(&mut self, g)
disable_gpio_port_clock(c, g) ==
    /\ rccHeld[c] > 0
    /\ nClockOps < MaxClockOps
    /\ IOPENR' = ClearBit(IOPENR, GPIOOffset(g.name))
    /\ nClockOps' = nClockOps + 1
    /\ hist' = Push(hist, Call("disable_gpio_port_clock", g, "-"))
    /\ UNCHANGED <<guardVars, APBENR1, APBENR2, stepVars, cv, gpioVars, fieldVars, rmwVars>>


----------------------------------------------------------------------------
(* Initial states *)

\* the statics and the handles at start-up: nothing taken, no handle
InitGuard ==
    /\ RCC_TAKEN = FALSE
    /\ ADC_TAKEN = FALSE
    /\ rccHeld = [c \in Ctx |-> 0]
    /\ adcHeld = [c \in Ctx |-> 0]
    /\ nCalls = [rcc |-> 0, adc |-> 0]
    /\ hist = <<>>
    /\ pc = [c \in Ctx |-> "idle"]
    /\ loaded = [c \in Ctx |-> FALSE]
    /\ rd = [c \in Ctx |-> {}]

\* the state after `let mut rcc = rcc::Rcc::take().unwrap();` at the top of main
InitGuardHeld ==
    /\ RCC_TAKEN = TRUE
    /\ ADC_TAKEN = FALSE
    /\ rccHeld = [c \in Ctx |-> IF c = "main" THEN 1 ELSE 0]
    /\ adcHeld = [c \in Ctx |-> 0]
    /\ nCalls = [rcc |-> 1, adc |-> 0]
    /\ hist = <<>>
    /\ pc = [c \in Ctx |-> "idle"]
    /\ loaded = [c \in Ctx |-> FALSE]
    /\ rd = [c \in Ctx |-> {}]

\* the gating registers hold any of the sampled contents
InitClock ==
    /\ \E s \in RegSamples :
          /\ APBENR1 = s
          /\ APBENR2 = Complement(s)
          /\ IOPENR = s
    /\ nClockOps = 0

InitCodecIdle == cv = [op |-> "-", axis |-> "-", v |-> "-", code |-> 0, out |-> [some |-> FALSE, v |-> "-"]]

\* the gating registers at their reset value
InitClockReset ==
    /\ APBENR1 = {}
    /\ APBENR2 = {}
    /\ IOPENR = {}
    /\ nClockOps = 0

NoPin == [port |-> "-", take |-> 0, pin |-> 0, mode |-> "-", born |-> [port |-> "-", pin |-> 0]]

NoPinOp ==
    [name |-> "-", h |-> NoPin, arg |-> "-",
     pre |-> [MODER |-> {}, OTYPER |-> {}, PUPDR |-> {}, AFRL |-> {}, AFRH |-> {}, ODR |-> {}]]

\* no transition in progress
NoJob == [name |-> "-", h |-> NoPin, arg |-> "-", stage |-> 0, done |-> FALSE]

InitRmwIdle == job = [c \in Ctx |-> NoJob]

\* the registers of the field calls before a call
FieldSnapshot == [CFGR |-> CFGR, CFGR1 |-> CFGR1, CFGR2 |-> CFGR2, SMPR |-> SMPR]

\* the result of a call: unit, a value, nothing, or a panic
Ret(kind, v) == [kind |-> kind, v |-> v]

NoFieldOp ==
    [name |-> "-", arg |-> "-", arg2 |-> "-", build |-> "-", ret |-> Ret("-", "-"),
     pre |-> [CFGR |-> {}, CFGR1 |-> {}, CFGR2 |-> {}, SMPR |-> {}]]

\* the RCC and ADC configuration registers at their reset values, no call made
InitFieldIdle ==
    /\ CFGR = {}
    /\ CFGR1 = {}
    /\ CFGR2 = {}
    /\ SMPR = {}
    /\ fop = NoFieldOp
    /\ nFieldOps = 0

\* no pin taken, no pin operation made
InitPins ==
    /\ pins = {}
    /\ pinOp = NoPinOp
    /\ nPinOps = 0

\* the GPIO registers at their reset values (every pin analog), no pin taken
InitGpioIdle ==
    /\ MODER = [g \in GPIOPort |-> BitPos]
    /\ OTYPER = [g \in GPIOPort |-> {}]
    /\ PUPDR = [g \in GPIOPort |-> {}]
    /\ AFRL = [g \in GPIOPort |-> {}]
    /\ AFRH = [g \in GPIOPort |-> {}]
    /\ ODR = [g \in GPIOPort |-> {}]
    /\ InitPins

\* the GPIO registers hold any of the sampled contents (the first is the reset state)
InitGpioAny ==
    /\ \E s \in RegSamples :
          /\ MODER = [g \in GPIOPort |-> Complement(s)]
          /\ OTYPER = [g \in GPIOPort |-> s \cap (0..15)]
          /\ PUPDR = [g \in GPIOPort |-> s]
          /\ AFRL = [g \in GPIOPort |-> s]
          /\ AFRH = [g \in GPIOPort |-> s]
          /\ ODR = [g \in GPIOPort |-> s \cap (0..15)]
    /\ InitPins

Init == InitGuard /\ InitClock /\ InitCodecIdle /\ InitGpioIdle /\ InitFieldIdle /\ InitRmwIdle

----------------------------------------------------------------------------
(* Spec: the ownership guards and the ADC clock gate, one flow of control *)

\* the gates the acquire runs switch
GuardGates == {PeripheralADC, [bus |-> "APB1", name |-> "TIM2"]}

Next ==
    \/ Rcc_take("main")
    \/ Adc_new("main")
    \/ drop_Rcc("main")
    \/ drop_Adc("main")
    \/ \E p \in GuardGates : enable_peripheral_clock("main", p)
    \/ \E p \in GuardGates : disable_peripheral_clock("main", p)

Spec == Init /\ [][Next]_vars

(* SpecClock: clock gating of every peripheral and port, one flow of control *)

InitHeld == InitGuardHeld /\ InitClock /\ InitCodecIdle /\ InitGpioIdle /\ InitFieldIdle /\ InitRmwIdle

NextClock ==
    \/ \E p \in Peripheral : enable_peripheral_clock("main", p)
    \/ \E p \in Peripheral : disable_peripheral_clock("main", p)
    \/ \E g \in GPIOPortArg : enable_gpio_port_clock("main", g)
    \/ \E g \in GPIOPortArg : disable_gpio_port_clock("main", g)

SpecClock == InitHeld /\ [][NextClock]_vars


----------------------------------------------------------------------------
(* rcc.rs, adc.rs: the acquire calls step by step, the main flow preempted  *)
(* by an interrupt handler that runs to completion                          *)

\* the main flow runs only while no handler is active
MayStep(c) == c = "irq" \/ pc["irq"] = "idle"

\* Rcc::take: TAKEN.load(Ordering::Relaxed)
take_load(c) ==
    /\ MayStep(c)
    /\ pc[c] = "idle"
    /\ nCalls.rcc < MaxCalls
    /\ nCalls' = [nCalls EXCEPT !.rcc = @ + 1]
    /\ loaded' = [loaded EXCEPT ![c] = RCC_TAKEN]
    /\ pc' = [pc EXCEPT ![c] = "take_branch"]
    /\ UNCHANGED <<RCC_TAKEN, ADC_TAKEN, rccHeld, adcHeld, clockVars, hist, rd, cv, gpioVars, fieldVars, rmwVars>>

\* Rcc::take: the load saw true: None
take_none(c) ==
    /\ MayStep(c)
    /\ pc[c] = "take_branch"
    /\ loaded[c]
    /\ pc' = [pc EXCEPT ![c] = "idle"]
    /\ UNCHANGED <<guardVars, clockVars, hist, loaded, rd, cv, gpioVars, fieldVars, rmwVars>>

\* Rcc::take: the load saw false: TAKEN.store(true, Ordering::Relaxed); Some(Self { .. })
take_store(c) ==
    /\ MayStep(c)
    /\ pc[c] = "take_branch"
    /\ ~loaded[c]
    /\ RCC_TAKEN' = TRUE
    /\ rccHeld' = [rccHeld EXCEPT ![c] = @ + 1]
    /\ pc' = [pc EXCEPT ![c] = "idle"]
    /\ UNCHANGED <<ADC_TAKEN, adcHeld, nCalls, clockVars, hist, loaded, rd, cv, gpioVars, fieldVars, rmwVars>>

\* Adc::new: rcc.enable_peripheral_clock(..ADC): modify reads APBENR2
new_read(c) ==
    /\ MayStep(c)
    /\ pc[c] = "idle"
    /\ rccHeld[c] > 0
    /\ nCalls.adc < MaxCalls
    /\ nCalls' = [nCalls EXCEPT !.adc = @ + 1]
    /\ rd' = [rd EXCEPT ![c] = APBENR2]
    /\ pc' = [pc EXCEPT ![c] = "new_write"]
    /\ UNCHANGED <<RCC_TAKEN, ADC_TAKEN, rccHeld, adcHeld, clockVars, hist, loaded, cv, gpioVars, fieldVars, rmwVars>>

\* Adc::new: rcc.enable_peripheral_clock(..ADC): modify writes APBENR2
new_write(c) ==
    /\ MayStep(c)
    /\ pc[c] = "new_write"
    /\ APBENR2' = SetBit(rd[c], APB2Offset("ADC"))
    /\ pc' = [pc EXCEPT ![c] = "new_load"]
    /\ UNCHANGED <<guardVars, APBENR1, IOPENR, nClockOps, hist, loaded, rd, cv, gpioVars, fieldVars, rmwVars>>

\* Adc::new: TAKEN.load(Ordering::Relaxed)
new_load(c) ==
    /\ MayStep(c)
    /\ pc[c] = "new_load"
    /\ loaded' = [loaded EXCEPT ![c] = ADC_TAKEN]
    /\ pc' = [pc EXCEPT ![c] = "new_branch"]
    /\ UNCHANGED <<guardVars, clockVars, hist, rd, cv, gpioVars, fieldVars, rmwVars>>

\* Adc::new: the load saw true: None
new_none(c) ==
    /\ MayStep(c)
    /\ pc[c] = "new_branch"
    /\ loaded[c]
    /\ pc' = [pc EXCEPT ![c] = "idle"]
    /\ UNCHANGED <<guardVars, clockVars, hist, loaded, rd, cv, gpioVars, fieldVars, rmwVars>>

\* Adc::new: the load saw false: TAKEN.store(true, Ordering::Relaxed); Some(Self { .. })
new_store(c) ==
    /\ MayStep(c)
    /\ pc[c] = "new_branch"
    /\ ~loaded[c]
    /\ ADC_TAKEN' = TRUE
    /\ adcHeld' = [adcHeld EXCEPT ![c] = @ + 1]
    /\ pc' = [pc EXCEPT ![c] = "idle"]
    /\ UNCHANGED <<RCC_TAKEN, rccHeld, nCalls, clockVars, hist, loaded, rd, cv, gpioVars, fieldVars, rmwVars>>

(* SpecIrq: the acquire calls of the main flow and of an interrupt handler *)

NextIrq ==
    \E c \in Ctx :
        \/ take_load(c)
        \/ take_none(c)
        \/ take_store(c)
        \/ new_read(c)
        \/ new_write(c)
        \/ new_load(c)
        \/ new_none(c)
        \/ new_store(c)

SpecIrq == Init /\ [][NextIrq]_vars

\* C1: under any interleaving of concurrent callers of Rcc::take (of Adc::new)
\* at most one caller receives a handle: no state has two live handles of the
\* same peripheral kind.
C1_AtMostOneHandle ==
    /\ rccHeld["main"] + rccHeld["irq"] <= 1
    /\ adcHeld["main"] + adcHeld["irq"] <= 1


----------------------------------------------------------------------------
(* Ownership guard and clock gating: properties *)

Acquires == {"Rcc_take", "Adc_new"}

\* C2: in a sequential run the first call of Rcc::take (of Adc::new) returns a
\* handle and every later call returns None, also after the handle was
\* dropped; a taken flag that is true stays true over every call.
C2_FirstAcquireOnly ==
    /\ LastCall.name = "Rcc_take"
         => ((LastCall.ret = "Some") <=> (LastCall.pre.nCalls.rcc = 0))
    /\ LastCall.name = "Adc_new"
         => ((LastCall.ret = "Some") <=> (LastCall.pre.nCalls.adc = 0))
    /\ LastCall.name \in Acquires => LastCall.ret \in {"Some", "None"}
    /\ LastCall.pre.RCC_TAKEN => RCC_TAKEN
    /\ LastCall.pre.ADC_TAKEN => ADC_TAKEN
    /\ nCalls.rcc > 0 => RCC_TAKEN
    /\ nCalls.adc > 0 => ADC_TAKEN
    /\ rccHeld["main"] <= 1 /\ adcHeld["main"] <= 1

\* a second Rcc::take, made after the only handle was dropped, returned None
C2_Witness ==
    /\ LastCall.name = "Rcc_take" /\ LastCall.ret = "None"
    /\ PrevCall.name = "drop_Rcc"
    /\ rccHeld["main"] = 0
    /\ RCC_TAKEN

\* C3: an acquire call that returns None has no side effect: the taken flags
\* and every register are the same after the call as before it.
C3_FailedAcquireNoEffect ==
    (LastCall.name \in Acquires /\ LastCall.ret = "None")
        => /\ APBENR1 = LastCall.pre.APBENR1
           /\ APBENR2 = LastCall.pre.APBENR2
           /\ IOPENR = LastCall.pre.IOPENR
           /\ RCC_TAKEN = LastCall.pre.RCC_TAKEN
           /\ ADC_TAKEN = LastCall.pre.ADC_TAKEN

ClockCalls ==
    {"enable_peripheral_clock", "disable_peripheral_clock",
     "enable_gpio_port_clock", "disable_gpio_port_clock"}

\* the bits in which two register values differ
Diff(a, b) == (a \ b) \cup (b \ a)

\* the gating register of a bus, now and in a snapshot
GateReg(bus) ==
    CASE bus = "APB1" -> APBENR1 [] bus = "APB2" -> APBENR2 [] bus = "IOP" -> IOPENR

GateRegIn(snap, bus) ==
    CASE bus = "APB1" -> snap.APBENR1 [] bus = "APB2" -> snap.APBENR2
      [] bus = "IOP" -> snap.IOPENR

Buses == {"APB1", "APB2", "IOP"}

\* C4: a clock gating call on P changes at most the bit at P's offset in P's
\* bus register and no other register; enabling GPIOA sets bit 0 of IOPENR and
\* leaves bits 1-31; no two peripherals of one bus share an offset.
C4_ClockGateOneBit ==
    /\ LastCall.name \in ClockCalls =>
          /\ Diff(GateReg(LastCall.arg.bus), GateRegIn(LastCall.pre, LastCall.arg.bus))
                \subseteq {Offset(LastCall.arg)}
          /\ \A b \in Buses \ {LastCall.arg.bus} : GateReg(b) = GateRegIn(LastCall.pre, b)
          /\ RCC_TAKEN = LastCall.pre.RCC_TAKEN /\ ADC_TAKEN = LastCall.pre.ADC_TAKEN
    /\ (LastCall.name = "enable_gpio_port_clock" /\ LastCall.arg.name = "GPIOA") =>
          /\ 0 \in IOPENR
          /\ IOPENR \ {0} = LastCall.pre.IOPENR \ {0}
    /\ LastCall.name \in ClockCalls =>
          /\ \A q \in Peripheral \cup GPIOPortArg :
                (q.bus = LastCall.arg.bus /\ q # LastCall.arg)
                    => Offset(q) # Offset(LastCall.arg)
          /\ Offset(LastCall.arg) \in BitPos

\* enabling GPIOA from a register with bit 0 clear set that bit
C4_Witness ==
    /\ LastCall.name = "enable_gpio_port_clock" /\ LastCall.arg.name = "GPIOA"
    /\ 0 \notin LastCall.pre.IOPENR
    /\ IOPENR = LastCall.pre.IOPENR \cup {0}
    /\ LastCall.pre.IOPENR # {}

\* the last two calls enabled and then disabled the same clock gate
EnabledThenDisabled ==
    /\ \/ (PrevCall.name = "enable_peripheral_clock"
             /\ LastCall.name = "disable_peripheral_clock")
       \/ (PrevCall.name = "enable_gpio_port_clock"
             /\ LastCall.name = "disable_gpio_port_clock")
    /\ PrevCall.arg = LastCall.arg

\* C5 as stated: enabling P's clock and then disabling it leaves the gating
\* register equal to its value before the enable, for every prior value.
C5_EnableDisableRestores ==
    EnabledThenDisabled
        => GateReg(LastCall.arg.bus) = GateRegIn(PrevCall.pre, LastCall.arg.bus)

\* C5 amended: enabling P's clock and then disabling it leaves the gating
\* register equal to its prior value with P's bit cleared, so equal to its
\* prior value exactly when P's bit was clear before the enable.
C5_EnableDisableClears ==
    EnabledThenDisabled
        => LET before == GateRegIn(PrevCall.pre, LastCall.arg.bus)
               after == GateReg(LastCall.arg.bus)
           IN  /\ after = before \ {Offset(LastCall.arg)}
               /\ (after = before) <=> (Offset(LastCall.arg) \notin before)

\* an enable/disable pair on a gate that was off before gave the register back
C5_Witness ==
    /\ EnabledThenDisabled
    /\ Offset(LastCall.arg) \notin GateRegIn(PrevCall.pre, LastCall.arg.bus)
    /\ Offset(LastCall.arg) \in GateRegIn(LastCall.pre, LastCall.arg.bus)
    /\ GateReg(LastCall.arg.bus) = GateRegIn(PrevCall.pre, LastCall.arg.bus)
    /\ GateReg(LastCall.arg.bus) # {}


----------------------------------------------------------------------------
(* rcc.rs, adc.rs: the register field codecs *)

U8 == 0..255

\* Option<T>
Some(v) == [some |-> TRUE, v |-> v]

None == [some |-> FALSE, v |-> "-"]

\* impl From<SystemClockSource> for u8
SystemClockSource_into_u8(v) ==
    CASE v = "HSI" -> 0
      [] v = "HSE" -> 1
      [] v = "PLL" -> 2
      [] v = "LSI" -> 3
      [] v = "LSE" -> 4

\* a decoder that also accepts code 5
SystemClockSource_from_u8_six(value) ==
    CASE value = 0 -> Some("HSI")
      [] value = 1 -> Some("HSE")
      [] value = 2 -> Some("PLL")
      [] value = 3 -> Some("LSI")
      [] value = 4 -> Some("LSE")
      [] value = 5 -> Some("LSE")
      [] OTHER -> None

\* SystemClockSource::from_u8
SystemClockSource_from_u8(value) ==
    CASE value = 0 -> Some("HSI")
      [] value = 1 -> Some("HSE")
      [] value = 2 -> Some("PLL")
      [] value = 3 -> Some("LSI")
      [] value = 4 -> Some("LSE")
      [] OTHER -> None

\* impl From<HSI16DivisionFactor> for u8
HSI16DivisionFactor_into_u8(v) ==
    CASE v = "Div1" -> 0
      [] v = "Div2" -> 1
      [] v = "Div4" -> 2
      [] v = "Div8" -> 3
      [] v = "Div16" -> 4
      [] v = "Div32" -> 5
      [] v = "Div64" -> 6
      [] v = "Div128" -> 7

\* impl From<ClockMode> for u8
ClockMode_into_u8(v) ==
    CASE v = "SyncPclkDiv1" -> 0
      [] v = "SyncPclkDiv2" -> 1
      [] v = "SyncPclkDiv4" -> 2
      [] v = "Async" -> 3

\* a decoder with the arms of codes 2 and 3 exchanged
ClockMode_from_u8_swapped(value) ==
    CASE value = 0 -> Some("SyncPclkDiv1")
      [] value = 1 -> Some("SyncPclkDiv2")
      [] value = 2 -> Some("Async")
      [] value = 3 -> Some("SyncPclkDiv4")
      [] OTHER -> None

\* ClockMode::from_u8
ClockMode_from_u8(value) ==
    CASE value = 0 -> Some("SyncPclkDiv1")
      [] value = 1 -> Some("SyncPclkDiv2")
      [] value = 2 -> Some("SyncPclkDiv4")
      [] value = 3 -> Some("Async")
      [] OTHER -> None

\* impl From<Resolution> for u8
Resolution_into_u8(v) ==
    CASE v = "Bits12" -> 0
      [] v = "Bits10" -> 1
      [] v = "Bits8" -> 2
      [] v = "Bits6" -> 3

\* Resolution::from_u8
Resolution_from_u8(value) ==
    CASE value = 0 -> Some("Bits12")
      [] value = 1 -> Some("Bits10")
      [] value = 2 -> Some("Bits8")
      [] value = 3 -> Some("Bits6")
      [] OTHER -> None

\* impl From<DataAlignment> for bool
DataAlignment_into_bool(v) ==
    CASE v = "Right" -> FALSE
      [] v = "Left" -> TRUE

\* DataAlignment::from_bool
DataAlignment_from_bool(value) ==
    CASE value = FALSE -> "Right"
      [] value = TRUE -> "Left"

\* impl From<LowPowerMode> for u8
LowPowerMode_into_u8(v) ==
    CASE v = "None" -> 0
      [] v = "AutoWait" -> 1
      [] v = "AutoPowerOff" -> 2
      [] v = "AutoWaitAndPowerOff" -> 3

\* LowPowerMode::from_u8
LowPowerMode_from_u8(value) ==
    CASE value = 0 -> Some("None")
      [] value = 1 -> Some("AutoWait")
      [] value = 2 -> Some("AutoPowerOff")
      [] value = 3 -> Some("AutoWaitAndPowerOff")
      [] OTHER -> None

\* impl From<SamplingTimeCommonGroup> for u8
SamplingTimeCommonGroup_into_u8(v) ==
    CASE v = "Common1" -> 0
      [] v = "Common2" -> 4

\* impl From<SamplingTimeCommonGroup> for bool
SamplingTimeCommonGroup_into_bool(v) ==
    CASE v = "Common1" -> FALSE
      [] v = "Common2" -> TRUE

\* SamplingTimeCommonGroup::from_bool
SamplingTimeCommonGroup_from_bool(value) ==
    CASE value = FALSE -> "Common1"
      [] value = TRUE -> "Common2"

\* impl From<SamplingTime> for u8
SamplingTime_into_u8(v) ==
    CASE v = "T1_5" -> 0
      [] v = "T3_5" -> 1
      [] v = "T7_5" -> 2
      [] v = "T12_5" -> 3
      [] v = "T19_5" -> 4
      [] v = "T39_5" -> 5
      [] v = "T79_5" -> 6
      [] v = "T160_5" -> 7

\* SamplingTime::from_u8
SamplingTime_from_u8(value) ==
    CASE value = 0 -> Some("T1_5")
      [] value = 1 -> Some("T3_5")
      [] value = 2 -> Some("T7_5")
      [] value = 3 -> Some("T12_5")
      [] value = 4 -> Some("T19_5")
      [] value = 5 -> Some("T39_5")
      [] value = 6 -> Some("T79_5")
      [] value = 7 -> Some("T160_5")
      [] OTHER -> None

\* impl From<Channel> for u8
Channel_into_u8(v) ==
    CASE v = "C0" -> 0
      [] v = "C1" -> 1
      [] v = "C2" -> 2
      [] v = "C3" -> 3
      [] v = "C4" -> 4
      [] v = "C5" -> 5
      [] v = "C6" -> 6
      [] v = "C7" -> 7
      [] v = "C8" -> 8
      [] v = "C9" -> 9
      [] v = "C10" -> 10
      [] v = "C11" -> 11
      [] v = "C12" -> 12
      [] v = "C13" -> 13
      [] v = "C14" -> 14
      [] v = "C15" -> 15
      [] v = "C16" -> 16
      [] v = "C17" -> 17
      [] v = "C18" -> 18

\* a decoder without the shift by one
Channel_from_usize_unshifted(value) ==
    CASE value = 0 -> Some("C0")
      [] value = 1 -> Some("C1")
      [] value = 2 -> Some("C2")
      [] value = 3 -> Some("C3")
      [] value = 4 -> Some("C4")
      [] value = 5 -> Some("C5")
      [] value = 6 -> Some("C6")
      [] value = 7 -> Some("C7")
      [] value = 8 -> Some("C8")
      [] value = 9 -> Some("C9")
      [] value = 10 -> Some("C10")
      [] value = 11 -> Some("C11")
      [] value = 12 -> Some("C12")
      [] value = 13 -> Some("C13")
      [] value = 14 -> Some("C14")
      [] value = 15 -> Some("C15")
      [] value = 16 -> Some("C16")
      [] value = 17 -> Some("C17")
      [] value = 18 -> Some("C18")
      [] OTHER -> None

\* Channel::from_usize
Channel_from_usize(value) ==
    CASE value = 1 -> Some("C0")
      [] value = 2 -> Some("C1")
      [] value = 3 -> Some("C2")
      [] value = 4 -> Some("C3")
      [] value = 5 -> Some("C4")
      [] value = 6 -> Some("C5")
      [] value = 7 -> Some("C6")
      [] value = 8 -> Some("C7")
      [] value = 9 -> Some("C8")
      [] value = 10 -> Some("C9")
      [] value = 11 -> Some("C10")
      [] value = 12 -> Some("C11")
      [] value = 13 -> Some("C12")
      [] value = 14 -> Some("C13")
      [] value = 15 -> Some("C14")
      [] value = 16 -> Some("C15")
      [] value = 17 -> Some("C16")
      [] value = 18 -> Some("C17")
      [] value = 19 -> Some("C18")
      [] OTHER -> None

\* impl From<RegularRank> for u8
RegularRank_into_u8(v) ==
    CASE v = "R1" -> 0
      [] v = "R2" -> 4
      [] v = "R3" -> 8
      [] v = "R4" -> 12
      [] v = "R5" -> 16
      [] v = "R6" -> 20
      [] v = "R7" -> 24
      [] v = "R8" -> 28

\* the axes that have an encoder and a decoder
Axes ==
    {"SystemClockSource", "ClockMode", "Resolution", "DataAlignment",
     "LowPowerMode", "SamplingTime", "SamplingTimeCommonGroup", "Channel"}

\* the axes decoded by a from_u8
U8Axes == {"SystemClockSource", "ClockMode", "Resolution", "LowPowerMode", "SamplingTime"}

\* the declared variants of an axis
Variants(axis) ==
    CASE axis = "SystemClockSource" -> {"HSI", "HSE", "PLL", "LSI", "LSE"}
      [] axis = "ClockMode" -> {"SyncPclkDiv1", "SyncPclkDiv2", "SyncPclkDiv4", "Async"}
      [] axis = "Resolution" -> {"Bits12", "Bits10", "Bits8", "Bits6"}
      [] axis = "DataAlignment" -> {"Right", "Left"}
      [] axis = "LowPowerMode" -> {"None", "AutoWait", "AutoPowerOff", "AutoWaitAndPowerOff"}
      [] axis = "SamplingTime" ->
            {"T1_5", "T3_5", "T7_5", "T12_5", "T19_5", "T39_5", "T79_5", "T160_5"}
      [] axis = "SamplingTimeCommonGroup" -> {"Common1", "Common2"}
      [] axis = "Channel" ->
            {"C0", "C1", "C2", "C3", "C4", "C5", "C6", "C7", "C8", "C9", "C10",
             "C11", "C12", "C13", "C14", "C15", "C16", "C17", "C18"}

\* the values a decoder of the axis can be handed (u8, bool, usize up to MaxUsize)
Codes(axis) ==
    CASE axis \in U8Axes -> U8
      [] axis \in {"DataAlignment", "SamplingTimeCommonGroup"} -> BOOLEAN
      [] axis = "Channel" -> 0..MaxUsize

\* the encoder of an axis
Encode(axis, v) ==
    CASE axis = "SystemClockSource" -> SystemClockSource_into_u8(v)
      [] axis = "ClockMode" -> ClockMode_into_u8(v)
      [] axis = "Resolution" -> Resolution_into_u8(v)
      [] axis = "DataAlignment" -> DataAlignment_into_bool(v)
      [] axis = "LowPowerMode" -> LowPowerMode_into_u8(v)
      [] axis = "SamplingTime" -> SamplingTime_into_u8(v)
      [] axis = "SamplingTimeCommonGroup" -> SamplingTimeCommonGroup_into_bool(v)
      [] axis = "Channel" -> Channel_into_u8(v)

\* the decoder of an axis (a from_bool returns the variant itself)
Decode(axis, c) ==
    CASE axis = "SystemClockSource" -> SystemClockSource_from_u8(c)
      [] axis = "ClockMode" -> ClockMode_from_u8(c)
      [] axis = "Resolution" -> Resolution_from_u8(c)
      [] axis = "DataAlignment" -> Some(DataAlignment_from_bool(c))
      [] axis = "LowPowerMode" -> LowPowerMode_from_u8(c)
      [] axis = "SamplingTime" -> SamplingTime_from_u8(c)
      [] axis = "SamplingTimeCommonGroup" -> Some(SamplingTimeCommonGroup_from_bool(c))
      [] axis = "Channel" -> Channel_from_usize(c)

\* a variant is encoded
encode(axis, v) ==
    /\ cv' = [op |-> "encode", axis |-> axis, v |-> v, code |-> Encode(axis, v), out |-> None]
    /\ UNCHANGED <<guardVars, clockVars, hist, stepVars, gpioVars, fieldVars, rmwVars>>

\* the code just encoded is decoded again
decode_back ==
    /\ cv.op = "encode"
    /\ cv' = [cv EXCEPT !.op = "roundtrip", !.out = Decode(cv.axis, cv.code)]
    /\ UNCHANGED <<guardVars, clockVars, hist, stepVars, gpioVars, fieldVars, rmwVars>>

\* a code is decoded
decode(axis, c) ==
    /\ cv' = [op |-> "decode", axis |-> axis, v |-> "-", code |-> c, out |-> Decode(axis, c)]
    /\ UNCHANGED <<guardVars, clockVars, hist, stepVars, gpioVars, fieldVars, rmwVars>>

(* SpecCodec: the conversions applied to every variant and to every code *)

NextCodec ==
    \/ \E axis \in Axes : \E v \in Variants(axis) : encode(axis, v)
    \/ decode_back
    \/ \E axis \in Axes : \E c \in Codes(axis) : decode(axis, c)

InitCodec == InitGuard /\ InitClockReset /\ InitCodecIdle /\ InitGpioIdle /\ InitFieldIdle /\ InitRmwIdle

SpecCodec == InitCodec /\ [][NextCodec]_vars

\* C6 as stated: for every axis with an encoder and a decoder, Channel with
\* Channel::from_usize among them, and every variant v, decode(encode(v)) = v.
C6_RoundTrip ==
    cv.op = "roundtrip" => cv.out = Some(cv.v)

\* C6 amended: decode(encode(v)) = v for every variant of every axis except
\* Channel; Channel::from_usize is shifted by one, so from_usize(encode(Cn))
\* is C(n-1) (nothing for C0) and from_usize(encode(Cn) + 1) is Cn.
C6_RoundTripButChannel ==
    /\ (cv.op = "roundtrip" /\ cv.axis # "Channel") => cv.out = Some(cv.v)
    /\ (cv.op = "roundtrip" /\ cv.axis = "Channel") =>
          /\ cv.out # Some(cv.v)
          /\ cv.code = 0 => cv.out = None
          /\ cv.code > 0 => (cv.out.some /\ Channel_into_u8(cv.out.v) = cv.code - 1)
          /\ Channel_from_usize(cv.code + 1) = Some(cv.v)

\* ClockMode::Async was encoded to 3 and decoded back to itself
C6_Witness ==
    /\ cv.op = "roundtrip"
    /\ cv.axis = "ClockMode" /\ cv.v = "Async" /\ cv.code = 3
    /\ cv.out = Some("Async")

\* the number of codes a from_u8 accepts
Declared(axis) ==
    CASE axis = "SystemClockSource" -> 5
      [] axis \in {"ClockMode", "Resolution", "LowPowerMode"} -> 4
      [] axis = "SamplingTime" -> 8

\* C7: every from_u8 yields nothing for a code outside the declared range
\* (c >= 5 for SystemClockSource, c >= 4 for ClockMode, Resolution and
\* LowPowerMode, c >= 8 for SamplingTime) and a variant for a code inside it.
C7_DecodeRange ==
    (cv.op = "decode" /\ cv.axis \in U8Axes) =>
        /\ cv.code >= Declared(cv.axis) => cv.out = None
        /\ cv.code < Declared(cv.axis) =>
              (cv.out.some /\ cv.out.v \in Variants(cv.axis))

\* SystemClockSource::from_u8(5) yielded nothing
C7_Witness ==
    /\ cv.op = "decode" /\ cv.axis = "SystemClockSource"
    /\ cv.code = 5
    /\ cv.out = None

\* C8: Channel::from_usize(n) yields channel C(n-1) for 1 <= n <= 19 (5 gives
\* C4, 19 gives C18) and nothing for n = 0 and for every n >= 20.
C8_ChannelFromUsize ==
    (cv.op = "decode" /\ cv.axis = "Channel") =>
        /\ (1 <= cv.code /\ cv.code <= 19) =>
              (cv.out.some /\ Channel_into_u8(cv.out.v) = cv.code - 1)
        /\ cv.code = 5 => cv.out = Some("C4")
        /\ cv.code = 19 => cv.out = Some("C18")
        /\ (cv.code = 0 \/ cv.code >= 20) => cv.out = None

\* Channel::from_usize(20) yielded nothing
C8_Witness ==
    /\ cv.op = "decode" /\ cv.axis = "Channel"
    /\ cv.code = 20
    /\ cv.out = None


----------------------------------------------------------------------------
(* gpio.rs: the pin type-state driver *)

\* the ports and pins the runs operate on
PortSamples == {"GPIOA"}

PinSamples == {0, 8, 15}

AlternateFunctionList == {"AF0", "AF1", "AF2", "AF3", "AF4", "AF5", "AF6", "AF7"}

AFSamples == {"AF0", "AF7"}

\* impl From<AlternateFunctionList> for u8
AlternateFunctionList_into_u8(v) ==
    CASE v = "AF0" -> 0 [] v = "AF1" -> 1 [] v = "AF2" -> 2 [] v = "AF3" -> 3
      [] v = "AF4" -> 4 [] v = "AF5" -> 5 [] v = "AF6" -> 6 [] v = "AF7" -> 7

\* the field values written by w.moder(n).analog() / .output() / .input()
ModerCode(m) ==
    CASE m = "input" -> 0 [] m = "output" -> 1 [] m = "alternate" -> 2 [] m = "analog" -> 3

\* the field values written by w.ot(n).push_pull() / .open_drain()
OtCode(t) == CASE t = "push_pull" -> 0 [] t = "open_drain" -> 1

\* the field values written by w.pupdr(n).floating() / .pull_up() / .pull_down()
PupdCode(p) == CASE p = "floating" -> 0 [] p = "pull_up" -> 1 [] p = "pull_down" -> 2

\* a field write that ORs the value in without clearing the field
WriteField_or(r, o, w, v) == r \cup FieldBits(v, o, w)

\* modify(|_, w| w.field(n).bits(v)): the register read, the w-bit field at
\* offset o replaced by v, the register written back
WriteField(r, o, w, v) == (r \ (o..(o + w - 1))) \cup FieldBits(v, o, w)

\* a handle rebuilt with the pin index lost
Moved_pin0(h, mode) == [h EXCEPT !.mode = mode, !.pin = 0]

\* Pin { pin: self.pin, _port: PhantomData, _mode: PhantomData }
Moved(h, mode) == [h EXCEPT !.mode = mode]

\* the registers of a port before a pin operation
PinSnapshot(g) ==
    [MODER |-> MODER[g], OTYPER |-> OTYPER[g], PUPDR |-> PUPDR[g],
     AFRL |-> AFRL[g], AFRH |-> AFRH[g], ODR |-> ODR[g]]

PinCall(name, h, arg) == [name |-> name, h |-> h, arg |-> arg, pre |-> PinSnapshot(h.port)]

\* the number of Pins::take calls of a port so far
Takes(g) == Cardinality({h.take : h \in {x \in pins : x.born.port = g}})

\* Pins::take: sixteen handles in the default mode
Pins_take(g) ==
    /\ Takes(g) < MaxPinsTake
    /\ pins' = pins \cup
          {[port |-> g, take |-> Takes(g) + 1, pin |-> i, mode |-> "Analog",
            born |-> [port |-> g, pin |-> i]] : i \in 0..15}
    /\ pinOp' = [NoPinOp EXCEPT !.name = "Pins_take"]
    /\ UNCHANGED <<MODER, OTYPER, PUPDR, AFRL, AFRH, ODR, nPinOps>>
    /\ UNCHANGED <<guardVars, clockVars, hist, stepVars, cv, fieldVars, rmwVars>>

\* what every pin operation leaves alone, and the count of operations
PinFrame ==
    /\ nPinOps < MaxPinOps
    /\ nPinOps' = nPinOps + 1
    /\ UNCHANGED <<guardVars, clockVars, hist, stepVars, cv, fieldVars, rmwVars>>

\* Pin<_, MODE>::into_analog(self)
into_analog(h) ==
    /\ h \in pins
    /\ PinFrame
    /\ MODER' = [MODER EXCEPT ![h.port] = WriteField(@, 2 * h.pin, 2, ModerCode("analog"))]
    /\ pins' = (pins \ {h}) \cup {Moved(h, "Analog")}
    /\ pinOp' = PinCall("into_analog", h, "-")
    /\ UNCHANGED <<OTYPER, PUPDR, AFRL, AFRH, ODR>>

\* Pin<_, MODE>::into_output_push_pull(self)
into_output_push_pull(h) ==
    /\ h \in pins
    /\ PinFrame
    /\ MODER' = [MODER EXCEPT ![h.port] = WriteField(@, 2 * h.pin, 2, ModerCode("output"))]
    /\ OTYPER' = [OTYPER EXCEPT ![h.port] = WriteField(@, h.pin, 1, OtCode("push_pull"))]
    /\ PUPDR' = [PUPDR EXCEPT ![h.port] = WriteField(@, 2 * h.pin, 2, PupdCode("floating"))]
    /\ pins' = (pins \ {h}) \cup {Moved(h, "Output<PushPull>")}
    /\ pinOp' = PinCall("into_output_push_pull", h, "-")
    /\ UNCHANGED <<AFRL, AFRH, ODR>>

\* Pin<_, MODE>::into_output_open_drain(self)
into_output_open_drain(h) ==
    /\ h \in pins
    /\ PinFrame
    /\ MODER' = [MODER EXCEPT ![h.port] = WriteField(@, 2 * h.pin, 2, ModerCode("output"))]
    /\ OTYPER' = [OTYPER EXCEPT ![h.port] = WriteField(@, h.pin, 1, OtCode("open_drain"))]
    /\ PUPDR' = [PUPDR EXCEPT ![h.port] = WriteField(@, 2 * h.pin, 2, PupdCode("floating"))]
    /\ pins' = (pins \ {h}) \cup {Moved(h, "Output<OpenDrain>")}
    /\ pinOp' = PinCall("into_output_open_drain", h, "-")
    /\ UNCHANGED <<AFRL, AFRH, ODR>>

\* Pin<_, MODE>::into_input(self)
into_input(h) ==
    /\ h \in pins
    /\ PinFrame
    /\ MODER' = [MODER EXCEPT ![h.port] = WriteField(@, 2 * h.pin, 2, ModerCode("input"))]
    /\ PUPDR' = [PUPDR EXCEPT ![h.port] = WriteField(@, 2 * h.pin, 2, PupdCode("floating"))]
    /\ pins' = (pins \ {h}) \cup {Moved(h, "Input<Floating>")}
    /\ pinOp' = PinCall("into_input", h, "-")
    /\ UNCHANGED <<OTYPER, AFRL, AFRH, ODR>>

\* Pin<_, MODE>::into_alternate_function(self, function): the nibble of the pin
\* in AFRL (pin < 8) or in AFRH (field AFSEL<pin>, nibble pin - 8); MODER is not written
into_alternate_function(h, function) ==
    /\ h \in pins
    /\ PinFrame
    /\ IF h.pin < 8
         THEN /\ AFRL' = [AFRL EXCEPT ![h.port] =
                            WriteField(@, 4 * h.pin, 4, AlternateFunctionList_into_u8(function))]
              /\ UNCHANGED AFRH
         ELSE /\ AFRH' = [AFRH EXCEPT ![h.port] =
                            WriteField(@, 4 * (h.pin - 8), 4, AlternateFunctionList_into_u8(function))]
              /\ UNCHANGED AFRL
    /\ pins' = (pins \ {h}) \cup {Moved(h, "AlternateFunction")}
    /\ pinOp' = PinCall("into_alternate_function", h, function)
    /\ UNCHANGED <<MODER, OTYPER, PUPDR, ODR>>

OutputModes == {"Output<PushPull>", "Output<OpenDrain>"}

InputModes == {"Input<Floating>", "Input<PullUp>", "Input<PullDown>"}

\* set_high offered by a handle of any mode
set_high_anymode(h) ==
    /\ h \in pins
    /\ PinFrame
    /\ ODR' = [ODR EXCEPT ![h.port] = @ \cup {h.pin}]
    /\ pinOp' = PinCall("set_high", h, "-")
    /\ UNCHANGED <<MODER, OTYPER, PUPDR, AFRL, AFRH, pins>>

\* Pin<_, Output<MODE>>::set_high(&mut self): BSRR.bs(pin) sets the ODR bit
set_high(h) ==
    /\ h \in pins
    /\ h.mode \in OutputModes
    /\ PinFrame
    /\ ODR' = [ODR EXCEPT ![h.port] = @ \cup {h.pin}]
    /\ pinOp' = PinCall("set_high", h, "-")
    /\ UNCHANGED <<MODER, OTYPER, PUPDR, AFRL, AFRH, pins>>

\* Pin<_, Output<MODE>>::set_low(&mut self): BSRR.br(pin) resets the ODR bit
set_low(h) ==
    /\ h \in pins
    /\ h.mode \in OutputModes
    /\ PinFrame
    /\ ODR' = [ODR EXCEPT ![h.port] = @ \ {h.pin}]
    /\ pinOp' = PinCall("set_low", h, "-")
    /\ UNCHANGED <<MODER, OTYPER, PUPDR, AFRL, AFRH, pins>>

\* Pin<_, Output<MODE>>::pull_up / Pin<_, Input<MODE>>::pull_up (&mut self)
pull_up(h) ==
    /\ h \in pins
    /\ h.mode \in OutputModes \cup InputModes
    /\ PinFrame
    /\ PUPDR' = [PUPDR EXCEPT ![h.port] = WriteField(@, 2 * h.pin, 2, PupdCode("pull_up"))]
    /\ pinOp' = PinCall("pull_up", h, "-")
    /\ UNCHANGED <<MODER, OTYPER, AFRL, AFRH, ODR, pins>>

\* Pin<_, Output<MODE>>::pull_down / Pin<_, Input<MODE>>::pull_down (&mut self)
pull_down(h) ==
    /\ h \in pins
    /\ h.mode \in OutputModes \cup InputModes
    /\ PinFrame
    /\ PUPDR' = [PUPDR EXCEPT ![h.port] = WriteField(@, 2 * h.pin, 2, PupdCode("pull_down"))]
    /\ pinOp' = PinCall("pull_down", h, "-")
    /\ UNCHANGED <<MODER, OTYPER, AFRL, AFRH, ODR, pins>>

\* Pin<_, Output<MODE>>::floating / Pin<_, Input<MODE>>::floating (&mut self)
floating(h) ==
    /\ h \in pins
    /\ h.mode \in OutputModes \cup InputModes
    /\ PinFrame
    /\ PUPDR' = [PUPDR EXCEPT ![h.port] = WriteField(@, 2 * h.pin, 2, PupdCode("floating"))]
    /\ pinOp' = PinCall("floating", h, "-")
    /\ UNCHANGED <<MODER, OTYPER, AFRL, AFRH, ODR, pins>>

(* SpecGpio: pins taken and driven through mode transitions, one flow of control *)

\* the handles the runs operate on
Operable == {h \in pins : h.pin \in PinSamples}

NextGpio ==
    \/ \E g \in PortSamples : Pins_take(g)
    \/ \E h \in Operable : into_analog(h)
    \/ \E h \in Operable : into_output_push_pull(h)
    \/ \E h \in Operable : into_output_open_drain(h)
    \/ \E h \in Operable : into_input(h)
    \/ \E h \in Operable : \E f \in AFSamples : into_alternate_function(h, f)
    \/ \E h \in Operable : set_high(h)
    \/ \E h \in Operable : set_low(h)
    \/ \E h \in Operable : pull_up(h)
    \/ \E h \in Operable : pull_down(h)
    \/ \E h \in Operable : floating(h)

InitGpio == InitGuard /\ InitClockReset /\ InitCodecIdle /\ InitGpioAny /\ InitFieldIdle /\ InitRmwIdle

SpecGpio == InitGpio /\ [][NextGpio]_vars


----------------------------------------------------------------------------
(* Pin type-state driver: properties *)

Transitions ==
    {"into_analog", "into_output_push_pull", "into_output_open_drain",
     "into_input", "into_alternate_function"}

PullDrive == {"set_high", "set_low", "pull_up", "pull_down", "floating"}

\* the mode tag of the handle a transition returns
TargetMode(name) ==
    CASE name = "into_analog" -> "Analog"
      [] name = "into_output_push_pull" -> "Output<PushPull>"
      [] name = "into_output_open_drain" -> "Output<OpenDrain>"
      [] name = "into_input" -> "Input<Floating>"
      [] name = "into_alternate_function" -> "AlternateFunction"

\* C9: over any sequence of mode transitions and pull/drive operations a pin
\* handle keeps the port and the pin index it got from Pins::take; a
\* transition changes only the mode tag.
C9_PinIdentity ==
    /\ \A h \in pins : h.port = h.born.port /\ h.pin = h.born.pin
    /\ pinOp.name \in Transitions =>
          [pinOp.h EXCEPT !.mode = TargetMode(pinOp.name)] \in pins
    /\ pinOp.name \in PullDrive => pinOp.h \in pins

\* pin 15, taken as Analog, was made an open-drain output and then an
\* alternate-function pin, and is still pin 15 of its port
C9_Witness ==
    /\ pinOp.name = "into_alternate_function"
    /\ pinOp.h.mode = "Output<OpenDrain>"
    /\ pinOp.h.pin = 15
    /\ \E h \in pins :
          /\ h.mode = "AlternateFunction"
          /\ h.pin = 15 /\ h.born.pin = 15
          /\ h.port = pinOp.h.port /\ h.take = pinOp.h.take

\* the mode-select, output-type and pull fields of pin j in the port's registers
ModeField(r, j) == FieldValue(r, 2 * j, 2)

TypeField(r, j) == FieldValue(r, j, 1)

PullField(r, j) == FieldValue(r, 2 * j, 2)

\* C10: after into_output_push_pull on pin i the mode-select field of pin i
\* is output (01), its output-type bit push-pull (0) and its pull field
\* floating (00); open-drain (1) after into_output_open_drain; input (00) and
\* floating after into_input; analog (11) after into_analog; the mode-select,
\* output-type and pull fields of every other pin are unchanged.
C10_ModeRegisters ==
    pinOp.name \in Transitions \ {"into_alternate_function"} =>
        LET i == pinOp.h.pin
            g == pinOp.h.port
            pre == pinOp.pre
        IN  /\ pinOp.name = "into_output_push_pull" =>
                  /\ ModeField(MODER[g], i) = 1
                  /\ TypeField(OTYPER[g], i) = 0
                  /\ PullField(PUPDR[g], i) = 0
            /\ pinOp.name = "into_output_open_drain" =>
                  /\ ModeField(MODER[g], i) = 1
                  /\ TypeField(OTYPER[g], i) = 1
                  /\ PullField(PUPDR[g], i) = 0
            /\ pinOp.name = "into_input" =>
                  /\ ModeField(MODER[g], i) = 0
                  /\ PullField(PUPDR[g], i) = 0
            /\ pinOp.name = "into_analog" => ModeField(MODER[g], i) = 3
            /\ \A j \in (0..15) \ {i} :
                  /\ ModeField(MODER[g], j) = ModeField(pre.MODER, j)
                  /\ TypeField(OTYPER[g], j) = TypeField(pre.OTYPER, j)
                  /\ PullField(PUPDR[g], j) = PullField(pre.PUPDR, j)

\* pin 8, whose fields held alternate (10), open-drain and pull-up, was made
\* a push-pull output
C10_Witness ==
    /\ pinOp.name = "into_output_push_pull"
    /\ pinOp.h.pin = 8
    /\ ModeField(pinOp.pre.MODER, 8) = 2
    /\ TypeField(pinOp.pre.OTYPER, 8) = 1
    /\ PullField(pinOp.pre.PUPDR, 8) = 1
    /\ ModeField(MODER[pinOp.h.port], 8) = 1
    /\ TypeField(OTYPER[pinOp.h.port], 8) = 0
    /\ PullField(PUPDR[pinOp.h.port], 8) = 0

\* C11: set_high and set_low are offered only by a handle whose mode tag is an
\* Output mode; pull_up, pull_down and floating only by a handle whose tag is
\* an Output or an Input mode, and each changes only the pull field of its
\* own pin, never a mode-select field; a handle tagged Analog or
\* AlternateFunction offers none of the five.
C11_ModeGating ==
    LET i == pinOp.h.pin
        g == pinOp.h.port
        pre == pinOp.pre
    IN  /\ pinOp.name \in {"set_high", "set_low"} => pinOp.h.mode \in OutputModes
        /\ pinOp.name \in {"pull_up", "pull_down", "floating"} =>
              /\ pinOp.h.mode \in OutputModes \cup InputModes
              /\ MODER[g] = pre.MODER
              /\ OTYPER[g] = pre.OTYPER
              /\ AFRL[g] = pre.AFRL /\ AFRH[g] = pre.AFRH
              /\ ODR[g] = pre.ODR
              /\ \A j \in (0..15) \ {i} :
                    PullField(PUPDR[g], j) = PullField(pre.PUPDR, j)
        /\ pinOp.name \in PullDrive =>
              pinOp.h.mode \notin {"Analog", "AlternateFunction"}

\* pin 15, made an input, was pulled up: its pull field went from floating
\* to pull-up
C11_Witness ==
    /\ pinOp.name = "pull_up"
    /\ pinOp.h.mode = "Input<Floating>"
    /\ pinOp.h.pin = 15
    /\ PullField(pinOp.pre.PUPDR, 15) = 0
    /\ PullField(PUPDR[pinOp.h.port], 15) = 1

\* C14: after into_alternate_function(f) on pin i the nibble of pin i in the
\* alternate-function register (low register for i < 8, high for i >= 8)
\* holds the code of f, the other nibbles are unchanged, and the mode-select
\* field of pin i holds the alternate encoding (10), as the handle's
\* AlternateFunction tag says.
C14_AlternateFunctionRegisters ==
    pinOp.name = "into_alternate_function" =>
        LET i == pinOp.h.pin
            g == pinOp.h.port
            pre == pinOp.pre
            code == AlternateFunctionList_into_u8(pinOp.arg)
        IN  /\ i < 8 => /\ FieldValue(AFRL[g], 4 * i, 4) = code
                        /\ AFRL[g] \ (4 * i .. 4 * i + 3) = pre.AFRL \ (4 * i .. 4 * i + 3)
                        /\ AFRH[g] = pre.AFRH
            /\ i >= 8 => /\ FieldValue(AFRH[g], 4 * (i - 8), 4) = code
                         /\ AFRH[g] \ (4 * (i - 8) .. 4 * (i - 8) + 3)
                               = pre.AFRH \ (4 * (i - 8) .. 4 * (i - 8) + 3)
                         /\ AFRL[g] = pre.AFRL
            /\ ModeField(MODER[g], i) = ModerCode("alternate")

\* C16: every physical pin (port, index) has at most one live handle.
C16_OneHandlePerPin ==
    \A h1, h2 \in pins : h1.born = h2.born => h1 = h2


----------------------------------------------------------------------------
(* adc.rs, rcc.rs: the register-field setters and getters *)

\* the bits of a u8 value
U8Bits(v) == FieldBits(v, 0, 8)

\* x << n on a u32: the bits moved up, those past bit 31 dropped
ShlU32(x, n) == {b + n : b \in x} \cap BitPos

\* x << n on a u8 with a shift amount below 8: bits past bit 7 dropped
ShlU8(x, n) == {b + n : b \in x} \cap (0..7)

\* !x on a u8
NotU8(x) == (0..7) \ x

\* x as u32 for a u8: zero-extended, the same bits
AsU32(x) == x

BitAnd(a, b) == a \cap b

\* the build profile: overflow checks on (debug) or off (release)
Build == {"debug", "release"}

\* the channels the runs address
ChannelSamples == {"C0", "C7", "C8", "C18"}

\* cfgr2.read().ckmode().bits()
CkmodeBits(r) == FieldValue(r, 30, 2)

\* cfgr1.read().res().bits()
ResBits(r) == FieldValue(r, 3, 2)

\* cfgr1.read().align().bit()
AlignBit(r) == 5 \in r

\* cfgr().read().sws().bits()
SwsBits(r) == FieldValue(r, 3, 3)

\* (bits >> n) & m for a mask m of w low bits
ShrAnd(r, n, w) == FieldValue(r, n, w)

\* what every register-field call leaves alone, the count of calls, and the
\* record of the call; nothing runs after a panic
FieldCall(name, arg, arg2, build, ret) ==
    /\ nFieldOps < MaxFieldOps
    /\ fop.ret.kind # "panic"
    /\ nFieldOps' = nFieldOps + 1
    /\ fop' = [name |-> name, arg |-> arg, arg2 |-> arg2, build |-> build,
               ret |-> ret, pre |-> FieldSnapshot]
    /\ UNCHANGED <<guardVars, clockVars, hist, stepVars, cv, gpioVars, rmwVars>>

\* Option<T> as the result of a call
OptRet(o) == IF o.some THEN Ret("some", o.v) ELSE Ret("none", "-")

\* Option<T>::unwrap() as the result of a call
Unwrap(o) == IF o.some THEN Ret("value", o.v) ELSE Ret("panic", "-")

\* Rcc::set_sys_clock_source
set_sys_clock_source(clk_source) ==
    /\ FieldCall("set_sys_clock_source", clk_source, "-", "-", Ret("unit", "-"))
    /\ CFGR' = WriteField(CFGR, 0, 3, SystemClockSource_into_u8(clk_source))
    /\ UNCHANGED <<CFGR1, CFGR2, SMPR>>

\* Rcc::get_sys_clock_source
get_sys_clock_source ==
    /\ FieldCall("get_sys_clock_source", "-", "-", "-",
                 Unwrap(SystemClockSource_from_u8(SwsBits(CFGR))))
    /\ UNCHANGED <<CFGR, CFGR1, CFGR2, SMPR>>

\* Adc::set_clock_mode
set_clock_mode(clock_mode) ==
    /\ FieldCall("set_clock_mode", clock_mode, "-", "-", Ret("unit", "-"))
    /\ CFGR2' = WriteField(CFGR2, 30, 2, ClockMode_into_u8(clock_mode))
    /\ UNCHANGED <<CFGR, CFGR1, SMPR>>

\* Adc::get_clock_mode
get_clock_mode ==
    /\ FieldCall("get_clock_mode", "-", "-", "-", OptRet(ClockMode_from_u8(CkmodeBits(CFGR2))))
    /\ UNCHANGED <<CFGR, CFGR1, CFGR2, SMPR>>

\* Adc::set_resolution
set_resolution(resolution) ==
    /\ FieldCall("set_resolution", resolution, "-", "-", Ret("unit", "-"))
    /\ CFGR1' = WriteField(CFGR1, 3, 2, Resolution_into_u8(resolution))
    /\ UNCHANGED <<CFGR, CFGR2, SMPR>>

\* Adc::get_resolution
get_resolution ==
    /\ FieldCall("get_resolution", "-", "-", "-", Unwrap(Resolution_from_u8(ResBits(CFGR1))))
    /\ UNCHANGED <<CFGR, CFGR1, CFGR2, SMPR>>

\* Adc::set_data_alignment
set_data_alignment(data_alignment) ==
    /\ FieldCall("set_data_alignment", data_alignment, "-", "-", Ret("unit", "-"))
    /\ CFGR1' = WriteField(CFGR1, 5, 1, IF DataAlignment_into_bool(data_alignment) THEN 1 ELSE 0)
    /\ UNCHANGED <<CFGR, CFGR2, SMPR>>

\* Adc::get_data_alignment
get_data_alignment ==
    /\ FieldCall("get_data_alignment", "-", "-", "-",
                 Ret("value", DataAlignment_from_bool(AlignBit(CFGR1))))
    /\ UNCHANGED <<CFGR, CFGR1, CFGR2, SMPR>>

\* r.bits() & !((u8::from(low_power_mode) as u32) << 14)
LowPowerWrite(r, low_power_mode) ==
    BitAnd(r, Complement(ShlU32(AsU32(U8Bits(LowPowerMode_into_u8(low_power_mode))), 14)))

\* Adc::set_low_power_mode
set_low_power_mode(low_power_mode) ==
    /\ FieldCall("set_low_power_mode", low_power_mode, "-", "-", Ret("unit", "-"))
    /\ CFGR1' = LowPowerWrite(CFGR1, low_power_mode)
    /\ UNCHANGED <<CFGR, CFGR2, SMPR>>

\* Adc::get_low_power_mode
get_low_power_mode ==
    /\ FieldCall("get_low_power_mode", "-", "-", "-",
                 OptRet(LowPowerMode_from_u8(ShrAnd(CFGR1, 14, 2))))
    /\ UNCHANGED <<CFGR, CFGR1, CFGR2, SMPR>>

\* r.bits() & !((u8::from(sampling_time) << u8::from(common_group)) as u32)
CommonGroupWrite(r, common_group, sampling_time) ==
    BitAnd(r, Complement(AsU32(ShlU8(U8Bits(SamplingTime_into_u8(sampling_time)),
                                     SamplingTimeCommonGroup_into_u8(common_group)))))

\* Adc::set_common_group_sampling_time
set_common_group_sampling_time(common_group, sampling_time) ==
    /\ FieldCall("set_common_group_sampling_time", common_group, sampling_time, "-",
                 Ret("unit", "-"))
    /\ SMPR' = CommonGroupWrite(SMPR, common_group, sampling_time)
    /\ UNCHANGED <<CFGR, CFGR1, CFGR2>>

\* Adc::get_common_group_sampling_time
get_common_group_sampling_time(common_group) ==
    /\ FieldCall("get_common_group_sampling_time", common_group, "-", "-",
                 Unwrap(SamplingTime_from_u8(
                            ShrAnd(SMPR, SamplingTimeCommonGroup_into_u8(common_group), 3))))
    /\ UNCHANGED <<CFGR, CFGR1, CFGR2, SMPR>>

\* (bool::from(common_group) as u8)
BoolAsU8(b) == IF b THEN {0} ELSE {}

\* r.bits() & !((bool::from(common_group) as u8) << (u8::from(channel) + 8)) as u32
\* with overflow checks off: the u8 shift takes its amount modulo 8, the
\* complement is taken on the u8 and then zero-extended
ChannelGroupWrite(r, channel, common_group) ==
    BitAnd(r, AsU32(NotU8(ShlU8(BoolAsU8(SamplingTimeCommonGroup_into_bool(common_group)),
                                (Channel_into_u8(channel) + 8) % 8))))

\* Adc::set_channel_sampling_time_group: the u8 shift by channel + 8 overflows;
\* with overflow checks on the call panics before the register is written
set_channel_sampling_time_group(channel, common_group, build) ==
    IF build = "debug" /\ Channel_into_u8(channel) + 8 >= 8
      THEN /\ FieldCall("set_channel_sampling_time_group", channel, common_group, build,
                        Ret("panic", "-"))
           /\ UNCHANGED <<CFGR, CFGR1, CFGR2, SMPR>>
      ELSE /\ FieldCall("set_channel_sampling_time_group", channel, common_group, build,
                        Ret("unit", "-"))
           /\ SMPR' = ChannelGroupWrite(SMPR, channel, common_group)
           /\ UNCHANGED <<CFGR, CFGR1, CFGR2>>

\* Adc::get_channel_sampling_time_group
get_channel_sampling_time_group(channel) ==
    /\ FieldCall("get_channel_sampling_time_group", channel, "-", "-",
                 Ret("value", SamplingTimeCommonGroup_from_bool(
                                  ShrAnd(SMPR, Channel_into_u8(channel) + 8, 1) # 0)))
    /\ UNCHANGED <<CFGR, CFGR1, CFGR2, SMPR>>

(* SpecFields: the field calls on the handles main holds, one flow of control *)

NextFields ==
    \/ \E v \in Variants("SystemClockSource") : set_sys_clock_source(v)
    \/ get_sys_clock_source
    \/ \E v \in Variants("ClockMode") : set_clock_mode(v)
    \/ get_clock_mode
    \/ \E v \in Variants("Resolution") : set_resolution(v)
    \/ get_resolution
    \/ \E v \in Variants("DataAlignment") : set_data_alignment(v)
    \/ get_data_alignment
    \/ \E v \in Variants("LowPowerMode") : set_low_power_mode(v)
    \/ get_low_power_mode
    \/ \E g \in Variants("SamplingTimeCommonGroup") : \E t \in Variants("SamplingTime") :
          set_common_group_sampling_time(g, t)
    \/ \E g \in Variants("SamplingTimeCommonGroup") : get_common_group_sampling_time(g)
    \/ \E ch \in ChannelSamples : \E g \in Variants("SamplingTimeCommonGroup") :
          \E b \in Build : set_channel_sampling_time_group(ch, g, b)
    \/ \E ch \in ChannelSamples : get_channel_sampling_time_group(ch)

\* the state after `let mut rcc = Rcc::take().unwrap();` and
\* `let adc = Adc::new(&mut rcc).unwrap();`
InitBothHeld ==
    /\ RCC_TAKEN = TRUE
    /\ ADC_TAKEN = TRUE
    /\ rccHeld = [c \in Ctx |-> IF c = "main" THEN 1 ELSE 0]
    /\ adcHeld = [c \in Ctx |-> IF c = "main" THEN 1 ELSE 0]
    /\ nCalls = [rcc |-> 1, adc |-> 1]
    /\ hist = <<>>
    /\ pc = [c \in Ctx |-> "idle"]
    /\ loaded = [c \in Ctx |-> FALSE]
    /\ rd = [c \in Ctx |-> {}]
    /\ APBENR1 = {}
    /\ APBENR2 = SetBit({}, Offset(PeripheralADC))
    /\ IOPENR = {}
    /\ nClockOps = 0

\* the configuration registers hold any of the sampled contents (the first is
\* the reset state); the hardware status field SWS holds any 3-bit value
InitFieldAny ==
    /\ \E s \in RegSamples :
          /\ CFGR1 = s
          /\ CFGR2 = Complement(s)
          /\ SMPR = s
    /\ \E sws \in 0..7 : CFGR = FieldBits(sws, 3, 3)
    /\ fop = NoFieldOp
    /\ nFieldOps = 0

InitFields == InitBothHeld /\ InitCodecIdle /\ InitGpioIdle /\ InitFieldAny /\ InitRmwIdle

SpecFields == InitFields /\ [][NextFields]_vars


----------------------------------------------------------------------------
(* Register-field calls: properties *)

Setters ==
    {"set_clock_mode", "set_resolution", "set_data_alignment", "set_low_power_mode",
     "set_common_group_sampling_time", "set_channel_sampling_time_group"}

\* the register an ADC setter addresses, now and before the call
SetterReg(name) ==
    CASE name = "set_clock_mode" -> CFGR2
      [] name \in {"set_resolution", "set_data_alignment", "set_low_power_mode"} -> CFGR1
      [] OTHER -> SMPR

SetterRegIn(snap, name) ==
    CASE name = "set_clock_mode" -> snap.CFGR2
      [] name \in {"set_resolution", "set_data_alignment", "set_low_power_mode"} -> snap.CFGR1
      [] OTHER -> snap.SMPR

\* the designated field of a setter call
SetterField(call) ==
    CASE call.name = "set_clock_mode" -> 30..31
      [] call.name = "set_resolution" -> 3..4
      [] call.name = "set_data_alignment" -> {5}
      [] call.name = "set_low_power_mode" -> 14..15
      [] call.name = "set_common_group_sampling_time" ->
            LET o == SamplingTimeCommonGroup_into_u8(call.arg) IN o..(o + 2)
      [] call.name = "set_channel_sampling_time_group" -> {Channel_into_u8(call.arg) + 8}

\* C12: each ADC field setter changes only bits inside its designated field
\* (the bit at channel index + 8 for set_channel_sampling_time_group, the 3
\* bits at the group's offset for set_common_group_sampling_time, bits 14-15
\* for set_low_power_mode), leaves every other bit of the register and every
\* other register unchanged, and does not overflow or panic.
C12_SetterStaysInField ==
    fop.name \in Setters =>
        /\ fop.ret.kind # "panic"
        /\ Diff(SetterReg(fop.name), SetterRegIn(fop.pre, fop.name)) \subseteq SetterField(fop)
        /\ \A n \in Setters :
              SetterReg(n) # SetterReg(fop.name) => SetterReg(n) = SetterRegIn(fop.pre, n)
        /\ CFGR = fop.pre.CFGR

\* what the getter matching a setter call returns in the current state
MatchingGet(call) ==
    CASE call.name = "set_clock_mode" -> ClockMode_from_u8(CkmodeBits(CFGR2))
      [] call.name = "set_resolution" -> Resolution_from_u8(ResBits(CFGR1))
      [] call.name = "set_data_alignment" -> Some(DataAlignment_from_bool(AlignBit(CFGR1)))
      [] call.name = "set_low_power_mode" -> LowPowerMode_from_u8(ShrAnd(CFGR1, 14, 2))
      [] call.name = "set_common_group_sampling_time" ->
            SamplingTime_from_u8(ShrAnd(SMPR, SamplingTimeCommonGroup_into_u8(call.arg), 3))
      [] call.name = "set_channel_sampling_time_group" ->
            Some(SamplingTimeCommonGroup_from_bool(
                     ShrAnd(SMPR, Channel_into_u8(call.arg) + 8, 1) # 0))

\* the value a setter call was asked to write
Requested(call) ==
    IF call.name \in {"set_common_group_sampling_time", "set_channel_sampling_time_group"}
      THEN call.arg2 ELSE call.arg

\* C13: after a setter call with variant v the matching getter returns v, for
\* every prior register content, for the six setter/getter pairs.
C13_SetThenGet ==
    fop.name \in Setters =>
        /\ fop.ret.kind = "unit"
        /\ MatchingGet(fop) = Some(Requested(fop))

UnwrappingGetters ==
    {"get_sys_clock_source", "get_resolution", "get_common_group_sampling_time"}

\* C17: every getter that decodes a register field (get_sys_clock_source on
\* the 3-bit SWS field, get_resolution, get_common_group_sampling_time)
\* returns a variant without panicking for every value the field can hold.
C17_GettersTotal ==
    fop.name \in UnwrappingGetters => fop.ret.kind = "value"


----------------------------------------------------------------------------
(* gpio.rs: the mode transitions run modify by modify, from two contexts *)

\* the pins each context holds the handle of: no handle is shared
RmwPins == [main |-> {0, 7}, irq |-> {8, 15}]

Owner(h) == CHOOSE c \in Ctx : h.pin \in RmwPins[c]

\* the registers a transition modifies, in the order of its modify calls
Stages(j) ==
    CASE j.name = "into_analog" -> <<"MODER">>
      [] j.name \in {"into_output_push_pull", "into_output_open_drain"} ->
            <<"MODER", "OTYPER", "PUPDR">>
      [] j.name = "into_input" -> <<"MODER", "PUPDR">>
      [] j.name = "into_alternate_function" ->
            IF j.h.pin < 8 THEN <<"AFRL">> ELSE <<"AFRH">>

\* the port register a modify reads and writes
PortReg(reg, g) ==
    CASE reg = "MODER" -> MODER[g]
      [] reg = "OTYPER" -> OTYPER[g]
      [] reg = "PUPDR" -> PUPDR[g]
      [] reg = "AFRL" -> AFRL[g]
      [] reg = "AFRH" -> AFRH[g]

\* the closure of a modify applied to the value r it was handed
StageWrite(j, reg, r) ==
    LET i == j.h.pin IN
    CASE reg = "MODER" ->
            WriteField(r, 2 * i, 2,
                       ModerCode(CASE j.name = "into_analog" -> "analog"
                                   [] j.name = "into_input" -> "input"
                                   [] OTHER -> "output"))
      [] reg = "OTYPER" ->
            WriteField(r, i, 1, OtCode(IF j.name = "into_output_push_pull"
                                         THEN "push_pull" ELSE "open_drain"))
      [] reg = "PUPDR" -> WriteField(r, 2 * i, 2, PupdCode("floating"))
      [] reg = "AFRL" -> WriteField(r, 4 * i, 4, AlternateFunctionList_into_u8(j.arg))
      [] reg = "AFRH" -> WriteField(r, 4 * (i - 8), 4, AlternateFunctionList_into_u8(j.arg))

\* what the steps of a transition leave alone
RmwFrame ==
    UNCHANGED <<guardVars, clockVars, hist, loaded, cv, fieldVars, ODR, pinOp>>

\* context c calls a transition on a handle it holds
rmw_begin(c, h, name, arg) ==
    /\ MayStep(c)
    /\ pc[c] = "idle"
    /\ h \in pins
    /\ Owner(h) = c
    /\ nPinOps < MaxPinOps
    /\ nPinOps' = nPinOps + 1
    /\ job' = [job EXCEPT ![c] = [name |-> name, h |-> h, arg |-> arg, stage |-> 1, done |-> FALSE]]
    /\ pc' = [pc EXCEPT ![c] = "read"]
    /\ UNCHANGED <<MODER, OTYPER, PUPDR, AFRL, AFRH, pins, rd>>
    /\ RmwFrame

\* modify: the register is read
rmw_read(c) ==
    /\ MayStep(c)
    /\ pc[c] = "read"
    /\ rd' = [rd EXCEPT ![c] = PortReg(Stages(job[c])[job[c].stage], job[c].h.port)]
    /\ pc' = [pc EXCEPT ![c] = "write"]
    /\ UNCHANGED <<MODER, OTYPER, PUPDR, AFRL, AFRH, pins, nPinOps, job>>
    /\ RmwFrame

\* modify: the value read, with the field replaced, is written back; after
\* the last modify the handle is returned with its new mode tag
rmw_write(c) ==
    /\ MayStep(c)
    /\ pc[c] = "write"
    /\ LET j == job[c]
           g == j.h.port
           reg == Stages(j)[j.stage]
           v == StageWrite(j, reg, rd[c])
           last == j.stage = Len(Stages(j))
       IN  /\ MODER' = IF reg = "MODER" THEN [MODER EXCEPT ![g] = v] ELSE MODER
           /\ OTYPER' = IF reg = "OTYPER" THEN [OTYPER EXCEPT ![g] = v] ELSE OTYPER
           /\ PUPDR' = IF reg = "PUPDR" THEN [PUPDR EXCEPT ![g] = v] ELSE PUPDR
           /\ AFRL' = IF reg = "AFRL" THEN [AFRL EXCEPT ![g] = v] ELSE AFRL
           /\ AFRH' = IF reg = "AFRH" THEN [AFRH EXCEPT ![g] = v] ELSE AFRH
           /\ job' = [job EXCEPT ![c] = IF last THEN [j EXCEPT !.done = TRUE]
                                                ELSE [j EXCEPT !.stage = @ + 1]]
           /\ pc' = [pc EXCEPT ![c] = IF last THEN "idle" ELSE "read"]
           /\ pins' = IF last THEN (pins \ {j.h}) \cup {Moved(j.h, TargetMode(j.name))}
                              ELSE pins
    /\ UNCHANGED <<rd, nPinOps>>
    /\ RmwFrame

(* SpecRmw: main and an interrupt handler each drive the pins they hold *)

NextRmw ==
    \/ \E c \in Ctx : \E h \in pins :
          \E name \in Transitions \ {"into_alternate_function"} : rmw_begin(c, h, name, "-")
    \/ \E c \in Ctx : \E h \in pins : \E f \in AFSamples :
          rmw_begin(c, h, "into_alternate_function", f)
    \/ \E c \in Ctx : rmw_read(c)
    \/ \E c \in Ctx : rmw_write(c)

\* the GPIO registers hold any of the sampled contents; Pins::take of the
\* sampled port was called once and its handles handed to the two contexts
InitGpioTaken ==
    /\ \E s \in RegSamples :
          /\ MODER = [g \in GPIOPort |-> Complement(s)]
          /\ OTYPER = [g \in GPIOPort |-> s \cap (0..15)]
          /\ PUPDR = [g \in GPIOPort |-> s]
          /\ AFRL = [g \in GPIOPort |-> s]
          /\ AFRH = [g \in GPIOPort |-> s]
          /\ ODR = [g \in GPIOPort |-> s \cap (0..15)]
    /\ pins = {[port |-> g, take |-> 1, pin |-> i, mode |-> "Analog",
                born |-> [port |-> g, pin |-> i]] :
                   g \in PortSamples, i \in RmwPins["main"] \cup RmwPins["irq"]}
    /\ pinOp = NoPinOp
    /\ nPinOps = 0

InitRmw ==
    InitGuard /\ InitClockReset /\ InitCodecIdle /\ InitGpioTaken /\ InitFieldIdle /\ InitRmwIdle

SpecRmw == InitRmw /\ [][NextRmw]_vars

\* the fields a completed transition wrote still hold what it wrote
Effect(j) ==
    \A k \in 1..Len(Stages(j)) :
        LET reg == Stages(j)[k]
        IN  StageWrite(j, reg, PortReg(reg, j.h.port)) = PortReg(reg, j.h.port)

\* C15: when each handle is used by one context only, no register update is
\* lost: once the read-modify-write operations issued from the main flow and
\* from the interrupt handler have completed, in any interleaving of their
\* read and write steps, the registers contain the effect of both.
C15_NoLostUpdate ==
    (\A c \in Ctx : pc[c] = "idle") =>
        \A c \in Ctx : job[c].done => Effect(job[c])


====
